---- MODULE Spec2Model ----
(***************************************************************************)
(* Move selection of the BizarrioFish bot (src/homemade.py): the strategy  *)
(* dispatcher TestFish.search (Best, Random, Capture, Worst) and           *)
(* WorstFish.search, together with the module-level Stockfish session they *)
(* share and the per-instance analysis engine used by evaluate.            *)
(*                                                                         *)
(* A chess position is abstracted to what search reads of it: the tuple of *)
(* legal moves in generator order, for every move whether it captures and  *)
(* whether it gives check, and the move stack.  Times are exact rationals  *)
(* (records num/den, den > 0) in seconds.                                  *)
(***************************************************************************)
EXTENDS Integers, Sequences, FiniteSets, TLC

\* ------------------------------------------------------------------ bounds
\* Largest number of legal moves of a position handed to search.
MaxLegal == 3
\* Engine scores range over -MaxScore .. MaxScore.
MaxScore == 1

\* ------------------------------------------------------- program constants
\* timeLeft /= 1000  (milliseconds to seconds)
MsPerSecond == 1000
\* timeLeft / 10  (the share of the clock one Worst pass may use)
ClockShare == 10

\* searchTime = 0.1
BaselineSearchTime == [num |-> 1, den |-> 10]
\* Limit(time = timeLimit - 0.01)
AnalyseMargin == [num |-> 1, den |-> 100]

\* --------------------------------------------------------------- rationals
RECURSIVE Gcd(_, _)
Gcd(a, b) == IF b = 0 THEN a ELSE Gcd(b, a % b)
Abs(k) == IF k < 0 THEN 0 - k ELSE k
\* a fraction in lowest terms
Reduce(a) == LET d == Gcd(Abs(a.num), a.den) IN [num |-> a.num \div d, den |-> a.den \div d]
FracLess(a, b) == a.num * b.den < b.num * a.den
FracLeq(a, b) == a.num * b.den <= b.num * a.den
FracSub(a, b) == Reduce([num |-> a.num * b.den - b.num * a.den, den |-> a.den * b.den])
FracAdd(a, b) == Reduce([num |-> a.num * b.den + b.num * a.den, den |-> a.den * b.den])
FracTimes(k, a) == Reduce([num |-> k * a.num, den |-> a.den])
FracOver(a, k) == Reduce([num |-> a.num, den |-> a.den * k])
FracOfInt(k) == [num |-> k, den |-> 1]

RECURSIVE FracSum(_)
FracSum(s) == IF s = <<>> THEN FracOfInt(0) ELSE FracAdd(Head(s), FracSum(Tail(s)))

\* ------------------------------------------------------------------- moves
\* One move of each category the Worst tie-break distinguishes.
Moves == {"quiet", "check", "capture", "captureCheck"}
\* The absent move: get_best_move() returning None, an unset result.
NoMove == "none"

Range(s) == {s[k] : k \in 1..Len(s)}

\* Tuples of distinct moves of length at most MaxLegal: tuple(board.legal_moves).
LegalTuples == {s \in UNION {[1..k -> Moves] : k \in 0..MaxLegal} : Cardinality(Range(s)) = Len(s)}

\* A board: the legal moves of the position search was called on, and the
\* moves pushed on it since.
Boards == [legal : LegalTuples, stack : {<<>>}]

\* board.is_capture(move)
is_capture(board, move) == move \in {"capture", "captureCheck"}

\* board.push(move)
push(board, move) == [board EXCEPT !.stack = Append(@, move)]

\* board.pop()
pop(board) == [board EXCEPT !.stack = SubSeq(@, 1, Len(@) - 1)]

\* board.is_check(), asked after the candidate was pushed: the side to move is
\* in check when the move just played gives check.
is_check(board) == board.stack # <<>> /\ board.stack[Len(board.stack)] \in {"check", "captureCheck"}

\* board.fen(): the position reached, without the order the generator lists
\* the moves in.
fen(board) == [moves |-> Range(board.legal), line |-> board.stack]

\* ------------------------------------------------------ the external engine
\* The engine's own ranking of the moves, most preferred first: it decides
\* which legal move a best-move query answers.
EnginePrefs == {<<"quiet", "check", "capture", "captureCheck">>, <<"captureCheck", "capture", "check", "quiet">>}

\* stockfish.get_best_move() for the position last set on the session: the
\* legal move the engine prefers, None when the position has no legal move.
\* Only positions search was called on are ever set; for any other position
\* (none set yet, moves pushed) the legal moves are not part of the model and
\* the answer is None.
get_best_move(position, pref) ==
    IF position.line # <<>> \/ position.moves = {} THEN NoMove
    ELSE pref[CHOOSE k \in 1..Len(pref) : pref[k] \in position.moves /\ \A j \in 1..(k - 1) : pref[j] \notin position.moves]

\* result["score"].relative of an analysis, or the analysis raising.
Scores == (0 - MaxScore)..MaxScore
EngineReplies == [ok : {TRUE}, score : Scores] \cup {[ok |-> FALSE, score |-> 0]}

\* The position a fresh session holds before any set_fen_position.
StartPosition == [moves |-> {}, line |-> <<"startpos">>]

\* ------------------------------------------------------ results and errors
NoOutcome == [kind |-> "none", move |-> NoMove, err |-> ""]
PlayResult(move) == [kind |-> "move", move |-> move, err |-> ""]
Raise(err) == [kind |-> "error", move |-> NoMove, err |-> err]

\* random.choice(seq): the outcomes it can have.
random_choice(seq) == IF seq = <<>> THEN {Raise("IndexError")} ELSE {PlayResult(seq[k]) : k \in 1..Len(seq)}

\* print("BMOVE: "+bmove); return PlayResult(bmove, None)
BestResult(bmove) == IF bmove = NoMove THEN Raise("TypeError") ELSE PlayResult(bmove)

\* ------------------------------------------------------- the Worst strategy
\* timeLeft is either a chess.engine.Limit or a number of milliseconds.
TimeLefts == {[isLimit |-> TRUE, ms |-> 0], [isLimit |-> FALSE, ms |-> 50], [isLimit |-> FALSE, ms |-> 2000], [isLimit |-> FALSE, ms |-> 3000]}

\* root_moves: None or a list of moves.
RootMoves == {[isList |-> FALSE, moves |-> {}], [isList |-> TRUE, moves |-> {"quiet"}]}

\* The clock in seconds and the share of it one pass may use.
ClockSeconds(timeLeft) == [num |-> timeLeft.ms, den |-> MsPerSecond]
ClockCap(timeLeft) == FracOver(ClockSeconds(timeLeft), ClockShare)

\* searchTime with the whole cap given to every candidate instead of cap / n.
SearchTimeWholeCap(n, timeLeft) ==
    IF timeLeft.isLimit THEN BaselineSearchTime
    ELSE IF FracLess(ClockCap(timeLeft), FracTimes(n, BaselineSearchTime))
         THEN ClockCap(timeLeft)
         ELSE BaselineSearchTime

\* searchTime as search computes it from the number of legal moves.
SearchTime(n, timeLeft) ==
    IF timeLeft.isLimit THEN BaselineSearchTime
    ELSE IF FracLess(ClockCap(timeLeft), FracTimes(n, BaselineSearchTime))
         THEN FracOver(ClockCap(timeLeft), n)
         ELSE BaselineSearchTime

\* The time limit evaluate hands to analyse.
AnalyseLimit(timeLimit) == FracSub(timeLimit, AnalyseMargin)

\* evaluate catching the exception of analyse and answering a neutral score.
evaluateNeutralOnFailure(reply) == [raised |-> FALSE, value |-> IF reply.ok THEN reply.score ELSE 0]

\* evaluate: the score of the analysis; an exception of analyse is not caught.
evaluate(reply) == IF reply.ok THEN [raised |-> FALSE, value |-> reply.score] ELSE [raised |-> TRUE, value |-> 0]

\* worstEvaluation = None
NoEvaluation == [isNone |-> TRUE, value |-> 0]

\* The comparison turned around: the running minimum.
UpdateWorstMinimum(worstEvaluation, worstMoves, move, evaluation) ==
    IF worstEvaluation.isNone \/ worstEvaluation.value > evaluation
    THEN [worstEvaluation |-> [isNone |-> FALSE, value |-> evaluation], worstMoves |-> <<move>>]
    ELSE IF worstEvaluation.value = evaluation
         THEN [worstEvaluation |-> worstEvaluation, worstMoves |-> Append(worstMoves, move)]
         ELSE [worstEvaluation |-> worstEvaluation, worstMoves |-> worstMoves]

\* The running maximum and the moves that reach it.
UpdateWorst(worstEvaluation, worstMoves, move, evaluation) ==
    IF worstEvaluation.isNone \/ worstEvaluation.value < evaluation
    THEN [worstEvaluation |-> [isNone |-> FALSE, value |-> evaluation], worstMoves |-> <<move>>]
    ELSE IF worstEvaluation.value = evaluation
         THEN [worstEvaluation |-> worstEvaluation, worstMoves |-> Append(worstMoves, move)]
         ELSE [worstEvaluation |-> worstEvaluation, worstMoves |-> worstMoves]

\* The three lists the tied moves are sorted into.
IsWorstCapture(move) == move.isCapture
IsWorstCheck(move) == ~move.isCapture /\ move.isCheck
IsWorstOther(move) == ~move.isCapture /\ ~move.isCheck
worstCaptures(worstMoves) == SelectSeq(worstMoves, IsWorstCapture)
worstChecks(worstMoves) == SelectSeq(worstMoves, IsWorstCheck)
worstOther(worstMoves) == SelectSeq(worstMoves, IsWorstOther)

\* The lists tried in the order captures, checks, other.
WorstPoolCapturesFirst(worstMoves) ==
    IF Len(worstCaptures(worstMoves)) # 0 THEN worstCaptures(worstMoves)
    ELSE IF Len(worstChecks(worstMoves)) # 0 THEN worstChecks(worstMoves)
    ELSE worstOther(worstMoves)

\* The list the result is drawn from.
WorstPool(worstMoves) ==
    IF Len(worstOther(worstMoves)) # 0 THEN worstOther(worstMoves)
    ELSE IF Len(worstChecks(worstMoves)) # 0 THEN worstChecks(worstMoves)
    ELSE worstCaptures(worstMoves)

Ucis(seq) == [k \in 1..Len(seq) |-> seq[k].uci]

\* ------------------------------------------------------------------- state
\* The selection requests (one per game being played).
Games == {1, 2}

VARIABLES
    game,     \* game[g]: the locals of request g's call of search, and its outcome
    session,  \* the module-level stockfish session: the position last set on it
    engine    \* the engine's ranking of the moves

vars == <<game, session, engine>>

\* A request before search is called.  board0 (the board as passed in),
\* evaluations (the scores obtained), requested (the limits handed to analyse),
\* failed (analyses that raised) and answeredFor (the position the session held
\* when it answered) record what happened; the code does not read them.
IdleRequest == [
    pc |-> "idle",
    move_type |-> "",
    board |-> [legal |-> <<>>, stack |-> <<>>],
    board0 |-> [legal |-> <<>>, stack |-> <<>>],
    timeLeft |-> [isLimit |-> TRUE, ms |-> 0],
    root_moves |-> [isList |-> FALSE, moves |-> {}],
    searchTime |-> BaselineSearchTime,
    next |-> 1,
    worstEvaluation |-> NoEvaluation,
    worstMoves |-> <<>>,
    evaluations |-> <<>>,
    requested |-> <<>>,
    failed |-> 0,
    answeredFor |-> StartPosition,
    outcome |-> NoOutcome]

Init ==
    /\ game = [g \in Games |-> IdleRequest]
    /\ session = StartPosition
    /\ engine \in EnginePrefs

\* search is called: the arguments arrive.
Called(g, move_type, board, timeLeft, root_moves) ==
    [game[g] EXCEPT !.move_type = move_type, !.board = board, !.board0 = board,
                    !.timeLeft = timeLeft, !.root_moves = root_moves]

\* search returns or raises.
Finish(request, outcome) == [request EXCEPT !.pc = "done", !.outcome = outcome]

\* The legal captures, in generator order.
Captures(board) == SelectSeq(board.legal, LAMBDA move : is_capture(board, move))

\* TestFish.search, move_type "Best": up to the first call on the session.
SearchBest(g, boards) ==
    /\ game[g].pc = "idle"
    /\ \E board \in boards, timeLeft \in TimeLefts, root_moves \in RootMoves :
        game' = [game EXCEPT ![g] = [Called(g, "Best", board, timeLeft, root_moves) EXCEPT !.pc = "set_fen"]]
    /\ UNCHANGED <<session, engine>>

\* TestFish.search, move_type "Random".
SearchRandom(g, boards) ==
    /\ game[g].pc = "idle"
    /\ \E board \in boards, timeLeft \in TimeLefts, root_moves \in RootMoves :
        \E outcome \in random_choice(board.legal) :
            game' = [game EXCEPT ![g] = Finish(Called(g, "Random", board, timeLeft, root_moves), outcome)]
    /\ UNCHANGED <<session, engine>>

\* TestFish.search, move_type "Capture": a random capture, or on to the
\* best-move query when there is none.
SearchCapture(g, boards) ==
    /\ game[g].pc = "idle"
    /\ \E board \in boards, timeLeft \in TimeLefts, root_moves \in RootMoves :
        IF Captures(board) # <<>>
        THEN \E outcome \in random_choice(Captures(board)) :
                game' = [game EXCEPT ![g] = Finish(Called(g, "Capture", board, timeLeft, root_moves), outcome)]
        ELSE game' = [game EXCEPT ![g] = [Called(g, "Capture", board, timeLeft, root_moves) EXCEPT !.pc = "set_fen"]]
    /\ UNCHANGED <<session, engine>>

\* The fallback going to get_best_move without setting the position.
SetFenPositionSkipped(g) ==
    /\ game[g].pc = "set_fen"
    /\ game' = [game EXCEPT ![g].pc = "get_best_move"]
    /\ UNCHANGED <<session, engine>>

\* stockfish.set_fen_position(board.fen())
SetFenPosition(g) ==
    /\ game[g].pc = "set_fen"
    /\ session' = fen(game[g].board)
    /\ game' = [game EXCEPT ![g].pc = "get_best_move"]
    /\ UNCHANGED engine

\* bmove = stockfish.get_best_move(); print; return PlayResult(bmove, None)
GetBestMove(g) ==
    /\ game[g].pc = "get_best_move"
    /\ game' = [game EXCEPT ![g] = Finish([@ EXCEPT !.answeredFor = session], BestResult(get_best_move(session, engine)))]
    /\ UNCHANGED <<session, engine>>

\* The head of the Worst strategy: legalMoves, searchTime, the empty running
\* maximum.
WorstStart(g, move_type, board, timeLeft, root_moves) ==
    [Called(g, move_type, board, timeLeft, root_moves) EXCEPT
        !.pc = "score",
        !.searchTime = SearchTime(Len(board.legal), timeLeft),
        !.next = 1,
        !.worstEvaluation = NoEvaluation,
        !.worstMoves = <<>>]

\* TestFish.search, move_type "Worst".
SearchWorst(g, boards) ==
    /\ game[g].pc = "idle"
    /\ \E board \in boards, timeLeft \in TimeLefts, root_moves \in RootMoves :
        game' = [game EXCEPT ![g] = WorstStart(g, "Worst", board, timeLeft, root_moves)]
    /\ UNCHANGED <<session, engine>>

\* WorstFish.search.
WorstFishSearch(g, boards) ==
    /\ game[g].pc = "idle"
    /\ \E board \in boards, timeLeft \in TimeLefts, root_moves \in RootMoves :
        game' = [game EXCEPT ![g] = WorstStart(g, "Worst", board, timeLeft, root_moves)]
    /\ UNCHANGED <<session, engine>>

\* One pass of the scoring loop for candidate number request.next, given the
\* engine's reply to the analysis: tag, push, evaluate, compare, pop.  When
\* evaluate raises, the statements after it (the pop among them) do not run.
ScoreStep(request, reply) ==
    LET uci == request.board.legal[request.next]
        isCapture == is_capture(request.board, uci)
        pushed == push(request.board, uci)
        move == [uci |-> uci, isCapture |-> isCapture, isCheck |-> is_check(pushed)]
        asked == Append(request.requested, AnalyseLimit(request.searchTime))
        evaluation == evaluate(reply)
        updated == UpdateWorst(request.worstEvaluation, request.worstMoves, move, evaluation.value)
    IN  IF evaluation.raised
        THEN Finish([request EXCEPT !.board = pushed, !.requested = asked, !.failed = @ + 1], Raise("EngineError"))
        ELSE [request EXCEPT
                !.board = pop(pushed),
                !.requested = asked,
                !.failed = IF reply.ok THEN @ ELSE @ + 1,
                !.evaluations = Append(@, [uci |-> uci, value |-> evaluation.value]),
                !.worstEvaluation = updated.worstEvaluation,
                !.worstMoves = updated.worstMoves,
                !.next = @ + 1]

\* The body of "for move in legalMoves".
ScoreCandidate(g) ==
    /\ game[g].pc = "score"
    /\ game[g].next <= Len(game[g].board.legal)
    /\ \E reply \in EngineReplies :
        game' = [game EXCEPT ![g] = ScoreStep(@, reply)]
    /\ UNCHANGED <<session, engine>>

\* After the loop: sort the tied moves into the three lists and draw.
PickWorst(g) ==
    /\ game[g].pc = "score"
    /\ game[g].next > Len(game[g].board.legal)
    /\ \E outcome \in random_choice(Ucis(WorstPool(game[g].worstMoves))) :
        game' = [game EXCEPT ![g] = Finish(@, outcome)]
    /\ UNCHANGED <<session, engine>>

\* ----------------------------------------------------------- specifications
\* One selection request at a time.
Next ==
    \E g \in {1} :
        \/ SearchBest(g, Boards)
        \/ SearchRandom(g, Boards)
        \/ SearchCapture(g, Boards)
        \/ SearchWorst(g, Boards)
        \/ WorstFishSearch(g, Boards)
        \/ SetFenPosition(g)
        \/ GetBestMove(g)
        \/ ScoreCandidate(g)
        \/ PickWorst(g)

Spec == Init /\ [][Next]_vars

\* Two games select moves at the same time through the strategies that use
\* the module-level session; their steps interleave freely, as nothing in
\* search orders them.
ConcBoards == {board \in Boards : board.legal \in {<<>>, <<"quiet">>, <<"check">>, <<"quiet", "check">>, <<"capture">>}}

NextConc ==
    \E g \in Games :
        \/ SearchBest(g, ConcBoards)
        \/ SearchCapture(g, ConcBoards)
        \/ SetFenPosition(g)
        \/ GetBestMove(g)

SpecConc == Init /\ [][NextConc]_vars

\* ------------------------------------------------------------------ claims
Done(g) == game[g].pc = "done"
Returned(g) == Done(g) /\ game[g].outcome.kind = "move"
LegalSet(g) == Range(game[g].board0.legal)
IsWorst(g) == game[g].move_type = "Worst"
LegalCaptureSet(g) == LegalSet(g) \cap {"capture", "captureCheck"}

\* C1: a returned move is a legal move of the position, and a member of
\* root_moves as well when root_moves is a list.
C1_MoveInMoveUniverse ==
    \A g \in Games :
        Returned(g) /\ LegalSet(g) # {} =>
            /\ game[g].outcome.move \in LegalSet(g)
            /\ game[g].root_moves.isList => game[g].outcome.move \in game[g].root_moves.moves \cap LegalSet(g)

\* C2: on a position without legal moves every strategy ends in the
\* NoLegalMoves error and in nothing else.
C2_NoLegalMovesError ==
    \A g \in Games :
        Done(g) /\ LegalSet(g) = {} => game[g].outcome = Raise("NoLegalMoves")

\* C3: in the Worst strategy the board equals the board passed in before each
\* candidate is applied and when search has finished.
C3_BoardRestored ==
    \A g \in Games :
        IsWorst(g) /\ game[g].pc \in {"score", "done"} => game[g].board = game[g].board0

\* The tied moves of request g and the move it returned, with their tags.
Tied(g) == Range(game[g].worstMoves)
Chosen(g) == CHOOSE move \in Tied(g) : move.uci = game[g].outcome.move
Quiet(move) == ~move.isCapture /\ ~move.isCheck
PlainCheck(move) == ~move.isCapture /\ move.isCheck

\* C4 as stated: the Worst result is quiet when a tied move is quiet, and gives
\* check when no tied move is quiet and some tied move gives check.
C4_BucketPreference ==
    \A g \in Games :
        IsWorst(g) /\ Returned(g) =>
            /\ (\E move \in Tied(g) : Quiet(move)) => Quiet(Chosen(g))
            /\ (\A move \in Tied(g) : ~Quiet(move)) /\ (\E move \in Tied(g) : move.isCheck) => Chosen(g).isCheck

\* C4 amended: the Worst result is one of the tied moves; it is quiet when a
\* tied move is quiet, a check that is no capture when no tied move is quiet
\* and some tied move is a check that is no capture, and a capture otherwise.
C4_BucketPreferenceAmended ==
    \A g \in Games :
        IsWorst(g) /\ Returned(g) =>
            /\ \E move \in Tied(g) : move.uci = game[g].outcome.move
            /\ (\E move \in Tied(g) : Quiet(move)) => Quiet(Chosen(g))
            /\ (\A move \in Tied(g) : ~Quiet(move)) /\ (\E move \in Tied(g) : PlainCheck(move)) => PlainCheck(Chosen(g))
            /\ (\A move \in Tied(g) : move.isCapture) => Chosen(g).isCapture

\* A Worst result that is a plain check, drawn from a tied set that holds a
\* capture listed before it and no quiet move.
C4_Witness ==
    \E g \in Games :
        /\ IsWorst(g) /\ Returned(g)
        /\ \A move \in Tied(g) : ~Quiet(move)
        /\ Len(game[g].worstMoves) >= 2
        /\ game[g].worstMoves[1].isCapture
        /\ PlainCheck(Chosen(g))

\* C5: with a clock of T seconds and n >= 1 legal moves, the limits the Worst
\* strategy hands to the engine sum to at most T/10, and searchTime is 0.1
\* when 0.1 * n <= T/10 and (T/10)/n otherwise.
C5_WorstTimeAccounting ==
    \A g \in Games :
        IsWorst(g) /\ ~game[g].timeLeft.isLimit /\ LegalSet(g) # {} =>
            LET n == Len(game[g].board0.legal)
                ms == game[g].timeLeft.ms
                total == FracSum(game[g].requested)
                fits == n * 1000 <= ms
                slice == game[g].searchTime
            IN  /\ total.num * 10000 <= ms * total.den
                /\ fits => slice.num * 10 = slice.den
                /\ ~fits => slice.num * 10000 * n = ms * slice.den

\* A finished Worst pass over three moves on a two-second clock, where the
\* slice was shrunk.
C5_Witness ==
    \E g \in Games :
        /\ IsWorst(g) /\ Returned(g)
        /\ ~game[g].timeLeft.isLimit /\ game[g].timeLeft.ms = 2000
        /\ Len(game[g].requested) = 3
        /\ FracLess(game[g].searchTime, BaselineSearchTime)

\* C6: Capture on a position without legal capture ends as Best ends on that
\* position (the engine's best move for it, returned the same way); with a
\* legal capture it returns a legal capture.
C6_CaptureFallback ==
    \A g \in Games :
        Done(g) /\ game[g].move_type = "Capture" =>
            IF LegalCaptureSet(g) = {}
            THEN game[g].outcome = BestResult(get_best_move([moves |-> LegalSet(g), line |-> <<>>], engine))
            ELSE game[g].outcome.kind = "move" /\ game[g].outcome.move \in LegalCaptureSet(g)

\* Capture fell back on a position with legal moves but no capture and
\* returned the engine's move.
C6_Witness ==
    \E g \in Games :
        /\ Returned(g) /\ game[g].move_type = "Capture"
        /\ LegalCaptureSet(g) = {}
        /\ Cardinality(LegalSet(g)) >= 2

\* C7: once an evaluation of the Worst strategy has failed, search has ended
\* with the engine's error (the EvaluationUnavailable outcome); it returns no
\* move and scores nothing further.
C7_EvaluationFailurePropagates ==
    \A g \in Games :
        IsWorst(g) /\ game[g].failed > 0 =>
            /\ Done(g)
            /\ game[g].outcome = Raise("EngineError")
            /\ game[g].failed = 1
            /\ Len(game[g].evaluations) = Len(game[g].requested) - 1

\* The third candidate's evaluation failed after two were scored.
C7_Witness ==
    \E g \in Games :
        /\ IsWorst(g) /\ game[g].failed > 0
        /\ Len(game[g].evaluations) = 2
        /\ game[g].worstMoves # <<>>

\* C8: every best-move answer was computed for the position of the request
\* that received it.
C8_AnswerForOwnPosition ==
    \A g \in Games :
        Done(g) /\ game[g].answeredFor # StartPosition => game[g].answeredFor = fen(game[g].board0)

\* C9: every time limit handed to the engine is strictly positive.
C9_PositiveLimits ==
    \A g \in Games :
        \A k \in 1..Len(game[g].requested) : game[g].requested[k].num > 0

\* The scores obtained so far and the largest of them.
Values(g) == {game[g].evaluations[k].value : k \in 1..Len(game[g].evaluations)}
MaxValue(g) == CHOOSE v \in Values(g) : \A w \in Values(g) : w <= v
IsMaximal(g, e) == e.value = MaxValue(g)

\* C10: in the Worst strategy, as long as no evaluation failed, the tied list
\* holds exactly the candidates scored so far whose evaluation is the maximum,
\* in the order scored; so when the loop has finished it is the set of legal
\* moves with the maximal evaluation, and the move returned is one of them.
C10_TiedSetIsArgmax ==
    \A g \in Games :
        IsWorst(g) /\ game[g].failed = 0 =>
            /\ Ucis(game[g].worstMoves) = Ucis(SelectSeq(game[g].evaluations, LAMBDA e : IsMaximal(g, e)))
            /\ game[g].worstEvaluation.isNone = (game[g].evaluations = <<>>)
            /\ ~game[g].worstEvaluation.isNone => game[g].worstEvaluation.value = MaxValue(g)
            /\ Returned(g) =>
                /\ Len(game[g].evaluations) = Len(game[g].board0.legal)
                /\ \E k \in 1..Len(game[g].evaluations) :
                    /\ game[g].evaluations[k].uci = game[g].outcome.move
                    /\ game[g].evaluations[k].value = MaxValue(g)

\* A finished pass over three moves in which a better score discarded the
\* first candidate and an equal one joined the tied list.
C10_Witness ==
    \E g \in Games :
        /\ IsWorst(g) /\ Returned(g)
        /\ Len(game[g].evaluations) = 3
        /\ game[g].evaluations[1].value < game[g].evaluations[2].value
        /\ game[g].evaluations[3].value = game[g].evaluations[2].value
        /\ Len(game[g].worstMoves) = 2

====
